---- MODULE Spec2Model ----
(***************************************************************************)
(* Credential reconciliation of brave/core/key/model.py (EVECredential).   *)
(*                                                                         *)
(* The stored state is the Credentials collection (creds), the characters  *)
(* collection (chars), the duplicate-account links kept by                 *)
(* User.add_duplicate (dups) and the process configuration (config).       *)
(* pull, eval_violation and delete are operators over that state; the      *)
(* remote API's answers are inputs drawn from small sets.                  *)
(***************************************************************************)
EXTENDS Integers, Sequences, FiniteSets, TLC

VARIABLES
    creds,    \* the Credentials collection: key -> stored EVECredential
    chars,    \* the characters collection: identifier -> stored EVECharacter
    dups,     \* the links recorded by User.add_duplicate
    config,   \* core.recommended_key_kind and core.recommended_key_mask
    corps,    \* the number of EVECorporation rows of the corporation named
    remote,   \* what APIKeyInfo answers for each key, where that is fixed
    last,     \* the operation that ran last and how it ended
    procs,    \* the pulls in progress, one slot for each key
    commits   \* the keys whose merge saved a character, in commit order

vars == <<creds, chars, dups, config, corps, remote, last, procs, commits>>

(***************************************************************************)
(* Universe                                                                *)
(***************************************************************************)
None == "None"

Accounts == {"A", "B"}

Keys == {1001, 1002}

Ids == {77, 78}

Kinds == {"Account", "Character", "Corporation"}

Violations == {None, "Character", "Kind", "Mask"}

\* Longest characters rowset of a key-info answer.
MaxRows == 2

\* Readings of the clock (datetime.utcnow) are 0..MaxTime.
MaxTime == 1

\* api.char.CharacterSheet.mask and api.char.CharacterInfoPublic.mask, as
\* two distinct bits of the access mask.
CharacterSheetMask == 1

CharacterInfoPublicMask == 2

(***************************************************************************)
(* Capability mask                                                         *)
(***************************************************************************)
RECURSIVE BitAnd(_, _)
BitAnd(a, b) ==
    IF a = 0 \/ b = 0 THEN 0
    ELSE (a % 2) * (b % 2) + 2 * BitAnd(a \div 2, b \div 2)

\* EVECharacterKeyMask.has_access / EVECorporationKeyMask.has_access
has_access(mask, required) == BitAnd(mask, required) = required

(***************************************************************************)
(* Configuration: web.core.config holds strings; int() parses them.        *)
(***************************************************************************)
IntLiterals == ("0" :> 0) @@ ("1" :> 1) @@ ("2" :> 2) @@ ("3" :> 3)

IsIntLiteral(s) == s \in DOMAIN IntLiterals

\* int(config['core.recommended_key_mask']); ValueError when not a literal
ParseInt(s) == IntLiterals[s]

\* A policy under which an Account key does not stand in for a Character key.
kind_acceptable_strict(cfg, kind) == kind = cfg.kind

\* lines 192-196 and 252-256
kind_acceptable(cfg, kind) ==
    \/ kind = cfg.kind
    \/ (cfg.kind = "Character" /\ kind = "Account")

(***************************************************************************)
(* Records of the store                                                    *)
(***************************************************************************)
\* A slot of the Credentials collection that holds no document.
NoCred ==
    [exists |-> FALSE, owner |-> None, kind |-> None, mask |-> 0,
     verified |-> FALSE, violation |-> None, modified |-> 0]

\* A credential as the web layer stores it before its first pull.
FreshCred(owner) ==
    [exists |-> TRUE, owner |-> owner, kind |-> "Account", mask |-> 0,
     verified |-> FALSE, violation |-> None, modified |-> 0]

\* A slot of the characters collection that holds no document.
NoChar ==
    [exists |-> FALSE, owner |-> None, credentials |-> {}, view |-> "none"]

\* EVECharacter(identifier=...).save(): a row with defaults only.
NewChar ==
    [exists |-> TRUE, owner |-> None, credentials |-> {}, view |-> "none"]

\* EVECredential.characters: EVECharacter.objects(credentials=self)
characters(chs, k) == {c \in Ids : chs[c].exists /\ k \in chs[c].credentials}

(***************************************************************************)
(* Collaborators of the credential model                                   *)
(***************************************************************************)
\* User.add_duplicate(a, b): a symmetric, idempotent link between accounts.
add_duplicate(dps, a, b) == dps \cup {{a, b}}

\* EVECharacter.detach, for the credential k that is being dropped: the
\* association with k goes; the owner goes only when no other live
\* credential still reports the character.
detach(crs, chs, c, k) ==
    LET others == {j \in chs[c].credentials \ {k} : crs[j].exists}
    IN  [chs EXCEPT ![c] =
            [@ EXCEPT !.owner = IF others = {} THEN None ELSE @,
                      !.credentials = @ \ {k}]]

(***************************************************************************)
(* EVECredential.delete                                                    *)
(***************************************************************************)
\* The loop body of delete for one character of the key (lines 61-66).
delete_char(crs, chs, c, k) ==
    LET d == IF chs[c].credentials \ {k} = {}
             THEN detach(crs, chs, c, k)[c]
             ELSE chs[c]
    IN  [d EXCEPT !.credentials = @ \ {k}]

\* A delete that drops the association but never detaches.
delete_no_detach(crs, chs, k) ==
    [creds |-> [crs EXCEPT ![k] = NoCred],
     chars |-> [c \in Ids |->
                  IF c \in characters(chs, k)
                  THEN [chs[c] EXCEPT !.credentials = @ \ {k}]
                  ELSE chs[c]]]

\* A delete that detaches every character of the key, shared or not.
delete_detach_all(crs, chs, k) ==
    [creds |-> [crs EXCEPT ![k] = NoCred],
     chars |-> [c \in Ids |->
                  IF c \in characters(chs, k)
                  THEN [chs[c] EXCEPT !.owner = None, !.credentials = @ \ {k}]
                  ELSE chs[c]]]

delete(crs, chs, k) ==
    [creds |-> [crs EXCEPT ![k] = NoCred],
     chars |-> [c \in Ids |->
                  IF c \in characters(chs, k)
                  THEN delete_char(crs, chs, c, k)
                  ELSE chs[c]]]

(***************************************************************************)
(* EVECredential.pull_character, step by step                              *)
(***************************************************************************)
\* lines 102-107: insert under the unique index, or load the existing row.
create_or_load(chs, id) ==
    IF chs[id].exists
    THEN [chars |-> chs, char |-> chs[id], new |-> FALSE]
    ELSE [chars |-> [chs EXCEPT ![id] = NewChar], char |-> NewChar, new |-> TRUE]

\* An owner check that never finds a conflict.
owner_conflict_ignored(char, new, owner) == FALSE

\* line 109, reached only on NotUniqueError.
owner_conflict(char, new, owner) ==
    ~new /\ char.owner # None /\ owner # char.owner

\* lines 122-125: which remote call the key's mask allows.
select_view(mask) ==
    IF has_access(mask, CharacterSheetMask) THEN "sheet"
    ELSE IF has_access(mask, CharacterInfoPublicMask) THEN "public"
    ELSE "keyinfo"

\* A failure handler that deletes the row whether or not this merge made it.
fetch_failed_drops_row(chs, id, new) == [chs EXCEPT ![id] = NoChar]

\* lines 126-131: the remote call failed.
fetch_failed(chs, id, new) ==
    IF new THEN [chs EXCEPT ![id] = NoChar] ELSE chs

\* A merge that attaches the credential and leaves the owner as it was.
merge_char_keeps_owner(chs, id, char, k, owner, view) ==
    [chs EXCEPT ![id] =
        [exists |-> TRUE,
         owner |-> char.owner,
         credentials |-> char.credentials \cup {k},
         view |-> view]]

\* lines 133-151: char is the document loaded at lines 102-107; save()
\* writes the fields that were assigned.
merge_char(chs, id, char, k, owner, view) ==
    [chs EXCEPT ![id] =
        [exists |-> TRUE,
         owner |-> owner,
         credentials |-> IF k \in char.credentials
                         THEN chs[id].credentials
                         ELSE char.credentials \cup {k},
         view |-> view]]

\* pull_character(info) on the in-memory credential mem of key k.
\* res: "char" (the character is returned), "conflict" (None is returned)
\* or "raise".
pull_character(chs, dps, mem, k, row) ==
    LET cl == create_or_load(chs, row.id)
        view == select_view(mem.mask)
    IN  IF owner_conflict(cl.char, cl.new, mem.owner)
        THEN [chars |-> cl.chars,
              dups |-> add_duplicate(dps, mem.owner, cl.char.owner),
              mem |-> [mem EXCEPT !.violation = "Character"],
              res |-> "conflict"]
        ELSE IF row.fail = "fetch" /\ view # "keyinfo"
        THEN [chars |-> fetch_failed(cl.chars, row.id, cl.new),
              dups |-> dps, mem |-> mem, res |-> "raise"]
        ELSE IF row.fail \in {"membership", "save"}
        THEN [chars |-> cl.chars, dups |-> dps, mem |-> mem, res |-> "raise"]
        ELSE [chars |-> merge_char(cl.chars, row.id, cl.char, k, mem.owner, view),
              dups |-> dps, mem |-> mem, res |-> "char"]

(***************************************************************************)
(* EVECredential.get_membership                                            *)
(*                                                                         *)
(* The rows of every answer name one corporation and no alliance (lines    *)
(* 161-164 then give None); n is the number of EVECorporation rows that    *)
(* corporation has.                                                        *)
(***************************************************************************)
\* lines 170-173 run without interruption: get_or_create looks the row up
\* and creates it when there is none.
get_membership(n) == IF n = 0 THEN 1 ELSE n

\* Some row of rows gets as far as a get_membership that succeeds: the row
\* is not skipped, not a conflict, no earlier row raised, and neither its
\* remote call nor get_membership raises. A get_membership that raises
\* does so at its first access to the store.
RECURSIVE resolves_membership(_, _, _)
resolves_membership(chs, mem, rows) ==
    IF rows = <<>> THEN FALSE
    ELSE LET row == Head(rows)
             cl == create_or_load(chs, row.id)
         IN  IF ~row.corp \/ owner_conflict(cl.char, cl.new, mem.owner)
             THEN resolves_membership(chs, mem, Tail(rows))
             ELSE IF row.fail = "fetch" /\ select_view(mem.mask) # "keyinfo"
             THEN FALSE
             ELSE row.fail # "membership"

(***************************************************************************)
(* EVECredential.eval_violation                                            *)
(***************************************************************************)
\* An evaluation that looks at the mask before it looks at the kind.
eval_violation_mask_first(cfg, mem) ==
    IF ~IsIntLiteral(cfg.mask) THEN [mem |-> mem, saved |-> FALSE]
    ELSE IF mem.violation = "Character" THEN [mem |-> mem, saved |-> FALSE]
    ELSE IF ~has_access(mem.mask, ParseInt(cfg.mask))
    THEN [mem |-> [mem EXCEPT !.violation = "Mask"], saved |-> TRUE]
    ELSE IF ~kind_acceptable(cfg, mem.kind)
    THEN [mem |-> [mem EXCEPT !.violation = "Kind"], saved |-> TRUE]
    ELSE [mem |-> [mem EXCEPT !.violation = None], saved |-> TRUE]

\* lines 189-213; saved tells whether self.save() ran.
eval_violation(cfg, mem) ==
    IF ~IsIntLiteral(cfg.mask) THEN [mem |-> mem, saved |-> FALSE]
    ELSE IF mem.violation = "Character" THEN [mem |-> mem, saved |-> FALSE]
    ELSE IF ~kind_acceptable(cfg, mem.kind)
    THEN [mem |-> [mem EXCEPT !.violation = "Kind"], saved |-> TRUE]
    ELSE IF ~has_access(mem.mask, ParseInt(cfg.mask))
    THEN [mem |-> [mem EXCEPT !.violation = "Mask"], saved |-> TRUE]
    ELSE [mem |-> [mem EXCEPT !.violation = None], saved |-> TRUE]

(***************************************************************************)
(* Answers of the remote API                                               *)
(***************************************************************************)
\* One row of result.characters.row: the character, whether the row has a
\* corporationName, and where its merge fails, if anywhere ("fetch": the
\* CharacterSheet / CharacterInfoPublic call; "membership": get_membership;
\* "save": char.save()).
RowFails == {"none", "fetch", "membership", "save"}

Rows(ids) == [id : ids, corp : BOOLEAN, fail : RowFails]

RowIds(rows) == {rows[i].id : i \in DOMAIN rows}

\* The rowset has a row for character c that the loop of pull processes.
Reported(rows, c) == \E i \in DOMAIN rows : rows[i].id = c /\ rows[i].corp

\* Rows that do not end the loop: skipped, or merged without a failure.
PlainRows(ids) == {r \in Rows(ids) : r.fail = "none"}

\* Rows that may end the loop; a row without corporationName is skipped
\* before anything can fail.
LastRows(ids) == {r \in Rows(ids) : ~r.corp => r.fail = "none"}

\* The rowsets of n plain rows of distinct characters.
RECURSIVE PlainSeqs(_, _)
PlainSeqs(ids, n) ==
    IF n = 0 THEN {<<>>}
    ELSE UNION {{Append(p, r) : r \in PlainRows(ids \ RowIds(p))} :
                    p \in PlainSeqs(ids, n - 1)}

\* Rowsets of at most MaxRows distinct characters. Nothing after a row
\* that raises is read, so only the last row carries a failure.
RowSeqs(ids) ==
    {<<>>} \cup
    UNION {{Append(p, r) : r \in LastRows(ids \ RowIds(p))} :
              p \in UNION {PlainSeqs(ids, n) : n \in 0..(MaxRows - 1)}}

\* APIKeyInfo answers: HTTP 403, another HTTP error, an error that is no
\* HTTPError (a timeout), or a result.
NoAnswer(status) == [status |-> status, kind |-> None, mask |-> 0, rows |-> <<>>]

Failures == {NoAnswer("403"), NoAnswer("500"), NoAnswer("timeout")}

Answers(kinds, masks, ids) ==
    [status : {"ok"}, kind : kinds, mask : masks, rows : RowSeqs(ids)]

(***************************************************************************)
(* EVECredential.pull                                                      *)
(***************************************************************************)
\* A verified flag that looks at the mask alone.
compute_verified_mask_only(cfg, mem) ==
    IF IsIntLiteral(cfg.mask)
    THEN has_access(mem.mask, ParseInt(cfg.mask))
    ELSE FALSE

\* lines 251-261
compute_verified(cfg, mem) ==
    IF IsIntLiteral(cfg.mask)
    THEN has_access(mem.mask, ParseInt(cfg.mask)) /\ kind_acceptable(cfg, mem.kind)
    ELSE FALSE

\* A pull that computes verified before it stores the fetched mask and kind.
apply_metadata_stale(cfg, mem, resp) ==
    [mem EXCEPT !.mask = resp.mask, !.kind = resp.kind,
                !.verified = compute_verified(cfg, mem)]

\* lines 247-261
apply_metadata(cfg, mem, resp) ==
    LET m == [mem EXCEPT !.mask = resp.mask, !.kind = resp.kind]
    IN  [m EXCEPT !.verified = compute_verified(cfg, m)]

\* lines 267-279: st is [chars, dups, mem, ok, pulled, raised].
RECURSIVE pull_loop(_, _, _)
pull_loop(st, k, rows) ==
    IF rows = <<>> THEN st
    ELSE LET row == Head(rows) IN
         IF ~row.corp THEN pull_loop(st, k, Tail(rows))
         ELSE LET r == pull_character(st.chars, st.dups, st.mem, k, row) IN
              IF r.res = "raise"
              THEN [st EXCEPT !.chars = r.chars, !.raised = TRUE]
              ELSE pull_loop(
                     [chars |-> r.chars, dups |-> r.dups, mem |-> r.mem,
                      ok |-> st.ok /\ r.res = "char",
                      pulled |-> IF r.res = "char" THEN st.pulled \cup {row.id}
                                 ELSE st.pulled,
                      raised |-> FALSE],
                     k, Tail(rows))

\* A pull that clears a "Character" violation whether or not every
\* character was returned.
clear_violation_always(mem, allCharsOK) ==
    IF mem.violation = "Character"
    THEN [mem EXCEPT !.violation = None]
    ELSE mem

\* A pull that never clears a "Character" violation.
clear_violation_never(mem, allCharsOK) == mem

\* lines 282-283
clear_violation(mem, allCharsOK) ==
    IF allCharsOK /\ mem.violation = "Character"
    THEN [mem EXCEPT !.violation = None]
    ELSE mem

\* A stale detach that clears the owner whoever else holds the character.
detach_outdated_drops_owner(crs, chs, k, pulled) ==
    [c \in Ids |->
        IF c \in characters(chs, k) \ pulled
        THEN [chs[c] EXCEPT !.owner = None, !.credentials = @ \ {k}]
        ELSE chs[c]]

\* lines 285-288
detach_outdated(crs, chs, k, pulled) ==
    [c \in Ids |->
        IF c \in characters(chs, k) \ pulled THEN detach(crs, chs, c, k)[c]
        ELSE chs[c]]

\* A cascade that calls the sink once for every unverified credential.
revocations_per_credential(crs, chs, k) ==
    [c \in Ids |->
        IF c \in characters(chs, k)
        THEN Cardinality({j \in chs[c].credentials : ~crs[j].verified})
        ELSE 0]

\* lines 295-301: how often ApplicationGrant.remove_grants_for_character
\* is called for each character.
revocations(crs, chs, k) ==
    [c \in Ids |->
        IF c \in characters(chs, k)
           /\ \A j \in chs[c].credentials : ~crs[j].verified
        THEN 1 ELSE 0]

NoRevocations == [c \in Ids |-> 0]

\* What a pull leaves: the store, how it ended, the object it returned
\* (ret; returned says whether that is the credential or None) and the
\* calls made to the grant revocation sink.
Result(crs, chs, dps, outcome, returned, ret, revoked) ==
    [creds |-> crs, chars |-> chs, dups |-> dps, outcome |-> outcome,
     returned |-> returned, ret |-> ret, revoked |-> revoked]

\* lines 282-303, after the loop over the rows.
finish_pull(crs, chs, dps, cfg, k, mem, allCharsOK, pulled, now) ==
    LET cleared == clear_violation(mem, allCharsOK)
        chs2 == detach_outdated(crs, chs, k, pulled)
        saved == [eval_violation(cfg, cleared).mem EXCEPT !.modified = now]
        crs2 == [crs EXCEPT ![k] = saved]
    IN  Result(crs2, chs2, dps, "done", TRUE, saved, revocations(crs2, chs2, k))

\* lines 263-303, after the key metadata was applied to mem.
pull_characters(crs, chs, dps, cfg, k, mem, rows, now) ==
    LET st == pull_loop([chars |-> chs, dups |-> dps, mem |-> mem, ok |-> TRUE,
                         pulled |-> {}, raised |-> FALSE], k, rows)
    IN  IF st.raised
        THEN Result(crs, st.chars, st.dups, "merge_raised", FALSE, st.mem,
                    NoRevocations)
        ELSE finish_pull(crs, st.chars, st.dups, cfg, k, st.mem, st.ok,
                         st.pulled, now)

\* A fetch that treats every HTTP error as a disabled key.
fetch_error_always_deletes(crs, chs, dps, k, status) ==
    IF status \in {"403", "500"}
    THEN LET d == delete(crs, chs, k)
         IN  Result(d.creds, d.chars, dps, "deleted", FALSE, NoCred, NoRevocations)
    ELSE Result(crs, chs, dps, "fetch_raised", FALSE, crs[k], NoRevocations)

\* lines 224-245: APIKeyInfo failed with the given status.
fetch_error(crs, chs, dps, k, status) ==
    IF status = "403"
    THEN LET d == delete(crs, chs, k)
         IN  Result(d.creds, d.chars, dps, "deleted", FALSE, NoCred, NoRevocations)
    ELSE IF status = "500"
    THEN Result(crs, chs, dps, "fetch_failed", FALSE, crs[k], NoRevocations)
    ELSE Result(crs, chs, dps, "fetch_raised", FALSE, crs[k], NoRevocations)

\* The EVECorporation rows after pull(): the merges of lines 270-279
\* call get_membership at line 133.
pull_membership(crs, chs, cfg, k, resp, n) ==
    IF /\ crs[k].kind # "Corporation"
       /\ resp.status = "ok"
       /\ resolves_membership(chs, apply_metadata(cfg, crs[k], resp), resp.rows)
    THEN get_membership(n)
    ELSE n

\* lines 215-303: pull() of the stored credential k, the remote API
\* answering resp and the clock reading now.
pull(crs, chs, dps, cfg, k, resp, now) ==
    IF crs[k].kind = "Corporation"
    THEN Result(crs, chs, dps, "corp", TRUE, crs[k], NoRevocations)
    ELSE IF resp.status # "ok"
    THEN fetch_error(crs, chs, dps, k, resp.status)
    ELSE LET mem == apply_metadata(cfg, crs[k], resp) IN
         IF resp.rows = <<>>
         THEN Result(crs, chs, dps, "no_rows", TRUE, mem, NoRevocations)
         ELSE pull_characters(crs, chs, dps, cfg, k, mem, resp.rows, now)

(***************************************************************************)
(* The sequential system: one pull, or one eval_violation, at a time       *)
(***************************************************************************)
\* A reading of the clock later than t, while the bounded clock has one.
Tick(t) == IF t < MaxTime THEN t + 1 ELSE t

Configs == [kind : {"Character", "Account"}, mask : {"3", "1", "full"}]

MainConfig == [kind |-> "Character", mask |-> "3"]

\* Both masks allow the character sheet; only 3 satisfies MainConfig.
MainAnswers == Answers({"Character"}, {1, 3}, Ids)

NoProc ==
    [pc |-> "idle", mem |-> NoCred, rows |-> <<>>, char |-> NoChar,
     new |-> FALSE, ok |-> TRUE, pulled |-> {}, reported |-> {}]

\* The systems in which each pull draws its answer leave remote alone.
NoRemote == [k \in Keys |-> NoAnswer("none")]

\* Key 1001 belongs to account A, key 1002 to one of owners.
InitStore(cfgs, owners, remotes) ==
    /\ \E o \in owners :
          creds = (1001 :> FreshCred("A")) @@ (1002 :> FreshCred(o))
    /\ chars = [c \in Ids |-> NoChar]
    /\ dups = {}
    /\ config \in cfgs
    /\ corps = 0
    /\ remote \in remotes
    /\ last = [op |-> "init", outcome |-> "none"]
    /\ procs = [k \in Keys |-> NoProc]
    /\ commits = <<>>

Init == InitStore({MainConfig}, Accounts, {NoRemote})

\* pull() of key k answered by resp, from the current state.
PullNow(k, resp) ==
    pull(creds, chars, dups, config, k, resp, Tick(creds[k].modified))

\* cred = cred.pull() on a stored credential.
Pull(k, resp) ==
    /\ creds[k].exists
    /\ LET r == PullNow(k, resp)
       IN  /\ creds' = r.creds
           /\ chars' = r.chars
           /\ dups' = r.dups
    /\ corps' = pull_membership(creds, chars, config, k, resp, corps)
    /\ UNCHANGED <<config, remote, last, procs, commits>>

\* cred.eval_violation() on a stored credential.
EvalViolation(k) ==
    /\ creds[k].exists
    /\ LET e == eval_violation(config, creds[k])
       IN  creds' = IF e.saved THEN [creds EXCEPT ![k] = e.mem] ELSE creds
    /\ UNCHANGED <<chars, dups, config, remote, corps, last, procs, commits>>

Next ==
    \/ \E k \in Keys, resp \in MainAnswers \cup Failures : Pull(k, resp)
    \/ \E k \in Keys : EvalViolation(k)

Spec == Init /\ [][Next]_vars

(***************************************************************************)
(* The sequential system with its history: last tells which operation ran  *)
(* last and how it ended                                                   *)
(***************************************************************************)
TracedPull(k, resp) ==
    /\ creds[k].exists
    /\ LET r == PullNow(k, resp)
       IN  /\ creds' = r.creds
           /\ chars' = r.chars
           /\ dups' = r.dups
           /\ last' = [op |-> "pull", outcome |-> r.outcome]
    /\ corps' = pull_membership(creds, chars, config, k, resp, corps)
    /\ UNCHANGED <<config, remote, procs, commits>>

TracedEvalViolation(k) ==
    /\ creds[k].exists
    /\ LET e == eval_violation(config, creds[k])
       IN  creds' = IF e.saved THEN [creds EXCEPT ![k] = e.mem] ELSE creds
    /\ last' = [op |-> "eval_violation", outcome |-> "none"]
    /\ UNCHANGED <<chars, dups, config, remote, corps, procs, commits>>

\* The traced system is answered with the full access mask only.
TracedAnswers == Answers({"Character"}, {3}, Ids)

NextTraced ==
    \/ \E k \in Keys, resp \in TracedAnswers \cup Failures : TracedPull(k, resp)
    \/ \E k \in Keys : TracedEvalViolation(k)

SpecTraced == Init /\ [][NextTraced]_vars

(***************************************************************************)
(* The policy system: one credential under every configuration             *)
(***************************************************************************)
PolicyAnswers == Answers(Kinds, {0, 1, 2, 3}, {77})

InitPolicy == InitStore(Configs, {"B"}, {NoRemote})

NextPolicy ==
    \/ \E resp \in PolicyAnswers \cup Failures : TracedPull(1001, resp)
    \/ TracedEvalViolation(1001)

SpecPolicy == InitPolicy /\ [][NextPolicy]_vars

(***************************************************************************)
(* The transfer system: the remote API answers the same for a key until    *)
(* character 77 moves from the account of key 1001 to that of key 1002;    *)
(* both keys keep being pulled and no fetch fails                          *)
(***************************************************************************)
\* A well-formed row whose merge does not fail.
GoodRow(id) == [id |-> id, corp |-> TRUE, fail |-> "none"]

Answer(mask, rows) ==
    [status |-> "ok", kind |-> "Character", mask |-> mask, rows |-> rows]

\* Key 1001 lists 77; key 1002 lists nothing, or 78.
BeforeTransfer ==
    {(1001 :> Answer(m1, <<GoodRow(77)>>)) @@ (1002 :> Answer(m2, rows)) :
        m1 \in {1, 3}, m2 \in {1, 3}, rows \in {<<>>, <<GoodRow(78)>>}}

\* Key 1002 lists 77; key 1001 lists nothing, or 78, with or without a
\* corporationName.
AfterTransfer ==
    {(1001 :> Answer(3, rows)) @@ (1002 :> Answer(m2, <<GoodRow(77)>>)) :
        m2 \in {1, 3},
        rows \in {<<>>, <<GoodRow(78)>>, <<[GoodRow(78) EXCEPT !.corp = FALSE]>>}}

InitTransfer == InitStore({MainConfig}, {"B"}, BeforeTransfer)

\* cred = cred.pull(), the remote API answering what it holds for k.
PullRemote(k) ==
    /\ creds[k].exists
    /\ \E r \in {PullNow(k, remote[k])},
          n \in {pull_membership(creds, chars, config, k, remote[k], corps)} :
           /\ creds' = r.creds
           /\ chars' = r.chars
           /\ dups' = r.dups
           /\ corps' = n
           /\ last' = [op |-> "pull", outcome |-> r.outcome]
    /\ UNCHANGED <<config, remote, procs, commits>>

\* 77, owned by account A through key 1001, moves to the account of key
\* 1002: the answers of the remote API change.
Transfer ==
    /\ Reported(remote[1001].rows, 77)
    /\ 1001 \in chars[77].credentials
    /\ chars[77].owner = creds[1001].owner
    /\ remote' \in AfterTransfer
    /\ UNCHANGED <<creds, chars, dups, config, corps, last, procs, commits>>

NextTransfer ==
    \/ Transfer
    \/ PullRemote(1001)
    \/ PullRemote(1002)

\* Each key keeps being pulled.
FairTransfer == WF_vars(PullRemote(1001)) /\ WF_vars(PullRemote(1002))

SpecTransfer == InitTransfer /\ [][NextTransfer]_vars /\ FairTransfer

(***************************************************************************)
(* The concurrent system: the pulls of different credentials interleave    *)
(* at the store accesses and remote calls of pull_character                *)
(***************************************************************************)
RaceAnswers == Answers({"Character"}, {1, 3}, {77})

\* The row that the pull of key k is working on.
Row(k) == Head(procs[k].rows)

Ended(k, outcome) == [NoProc EXCEPT !.pc = outcome]

\* lines 215-265: the pull of k starts; it ends at once when the key is a
\* corporation key, the fetch fails or no character is reported.
StartPull(k, resp) ==
    /\ procs[k].pc = "idle"
    /\ creds[k].exists
    /\ IF creds[k].kind = "Corporation" \/ resp.status # "ok" \/ resp.rows = <<>>
       THEN LET r == pull(creds, chars, dups, config, k, resp,
                          Tick(creds[k].modified))
            IN  /\ creds' = r.creds
                /\ chars' = r.chars
                /\ dups' = r.dups
                /\ procs' = [procs EXCEPT ![k] = Ended(k, r.outcome)]
                /\ last' = [op |-> "pull", outcome |-> r.outcome]
       ELSE /\ procs' = [procs EXCEPT ![k] =
                  [NoProc EXCEPT
                      !.pc = "row",
                      !.mem = apply_metadata(config, creds[k], resp),
                      !.rows = resp.rows,
                      !.reported = {c \in Ids : Reported(resp.rows, c)}]]
            /\ UNCHANGED <<creds, chars, dups, last>>
    /\ UNCHANGED <<config, remote, corps, commits>>

\* lines 271-273: a row without corporationName is passed over.
SkipRow(k) ==
    /\ procs[k].pc = "row"
    /\ procs[k].rows # <<>>
    /\ ~Row(k).corp
    /\ procs' = [procs EXCEPT ![k].rows = Tail(@)]
    /\ UNCHANGED <<creds, chars, dups, config, remote, corps, last, commits>>

\* lines 102-107
LoadChar(k) ==
    /\ procs[k].pc = "row"
    /\ procs[k].rows # <<>>
    /\ Row(k).corp
    /\ LET cl == create_or_load(chars, Row(k).id)
       IN  /\ chars' = cl.chars
           /\ procs' = [procs EXCEPT ![k].pc = "check", ![k].char = cl.char,
                                     ![k].new = cl.new]
    /\ UNCHANGED <<creds, dups, config, remote, corps, last, commits>>

\* lines 109-119
CheckOwner(k) ==
    /\ procs[k].pc = "check"
    /\ IF owner_conflict(procs[k].char, procs[k].new, procs[k].mem.owner)
       THEN /\ dups' = add_duplicate(dups, procs[k].mem.owner, procs[k].char.owner)
            /\ procs' = [procs EXCEPT ![k].pc = "row",
                                      ![k].mem.violation = "Character",
                                      ![k].ok = FALSE,
                                      ![k].rows = Tail(@)]
       ELSE /\ procs' = [procs EXCEPT ![k].pc = "fetch"]
            /\ UNCHANGED dups
    /\ UNCHANGED <<creds, chars, config, remote, corps, last, commits>>

\* lines 121-131: the remote call.
FetchChar(k) ==
    /\ procs[k].pc = "fetch"
    /\ IF Row(k).fail = "fetch" /\ select_view(procs[k].mem.mask) # "keyinfo"
       THEN /\ chars' = fetch_failed(chars, Row(k).id, procs[k].new)
            /\ procs' = [procs EXCEPT ![k] = Ended(k, "merge_raised")]
            /\ last' = [op |-> "pull", outcome |-> "merge_raised"]
       ELSE /\ procs' = [procs EXCEPT ![k].pc = "membership"]
            /\ UNCHANGED <<chars, last>>
    /\ UNCHANGED <<creds, dups, config, remote, corps, commits>>

\* lines 170-173, first half: get_or_create looks the corporation up.
LookupCorp(k) ==
    /\ procs[k].pc = "membership"
    /\ IF Row(k).fail = "membership"
       THEN /\ procs' = [procs EXCEPT ![k] = Ended(k, "merge_raised")]
            /\ last' = [op |-> "pull", outcome |-> "merge_raised"]
       ELSE /\ procs' = [procs EXCEPT ![k].pc =
                            IF corps = 0 THEN "create" ELSE "save"]
            /\ UNCHANGED last
    /\ UNCHANGED <<creds, chars, dups, config, remote, corps, commits>>

\* lines 170-173, second half: get_or_create found no row and saves a new
\* one. When another pull has saved one in between, the save adds a
\* second row, or raises NotUniqueError where the collection has a unique
\* index on the identifier; key/model.py does not decide which of the two.
CreateCorp(k) ==
    /\ procs[k].pc = "create"
    /\ \/ /\ corps' = corps + 1
          /\ procs' = [procs EXCEPT ![k].pc = "save"]
          /\ UNCHANGED last
       \/ /\ corps > 0
          /\ procs' = [procs EXCEPT ![k] = Ended(k, "not_unique")]
          /\ last' = [op |-> "pull", outcome |-> "merge_raised"]
          /\ UNCHANGED corps
    /\ UNCHANGED <<creds, chars, dups, config, remote, commits>>

\* lines 135-152 and 275-279
SaveChar(k) ==
    /\ procs[k].pc = "save"
    /\ IF Row(k).fail = "save"
       THEN /\ procs' = [procs EXCEPT ![k] = Ended(k, "merge_raised")]
            /\ last' = [op |-> "pull", outcome |-> "merge_raised"]
            /\ UNCHANGED <<chars, commits>>
       ELSE /\ chars' = merge_char(chars, Row(k).id, procs[k].char, k,
                                   procs[k].mem.owner,
                                   select_view(procs[k].mem.mask))
            /\ procs' = [procs EXCEPT ![k].pc = "row",
                                      ![k].pulled = @ \cup {Row(k).id},
                                      ![k].rows = Tail(@)]
            /\ commits' = Append(commits, k)
            /\ UNCHANGED last
    /\ UNCHANGED <<creds, dups, config, remote, corps>>

\* lines 282-303
FinishPull(k) ==
    /\ procs[k].pc = "row"
    /\ procs[k].rows = <<>>
    /\ LET r == finish_pull(creds, chars, dups, config, k, procs[k].mem,
                            procs[k].ok, procs[k].pulled,
                            Tick(creds[k].modified))
       IN  /\ creds' = r.creds
           /\ chars' = r.chars
    /\ procs' = [procs EXCEPT ![k] = [Ended(k, "done") EXCEPT
                                         !.reported = procs[k].reported]]
    /\ last' = [op |-> "pull", outcome |-> "done"]
    /\ UNCHANGED <<dups, config, remote, corps, commits>>

NextRace ==
    \/ \E k \in Keys, resp \in RaceAnswers : StartPull(k, resp)
    \/ \E k \in Keys : SkipRow(k)
    \/ \E k \in Keys : LoadChar(k)
    \/ \E k \in Keys : CheckOwner(k)
    \/ \E k \in Keys : FetchChar(k)
    \/ \E k \in Keys : LookupCorp(k)
    \/ \E k \in Keys : CreateCorp(k)
    \/ \E k \in Keys : SaveChar(k)
    \/ \E k \in Keys : FinishPull(k)

SpecRace == Init /\ [][NextRace]_vars

(***************************************************************************)
(* Properties of the sequential system                                     *)
(***************************************************************************)
\* resp reports character c in a row that the loop of pull processes.
Reports(resp, c) == Reported(resp.rows, c)

\* Character c is attached to credential k, which gives it its owner.
AttachedTo(c, k) ==
    /\ chars[c].exists
    /\ creds[k].exists
    /\ k \in chars[c].credentials
    /\ chars[c].owner = creds[k].owner

Stored(crs, chs, dps) ==
    [creds |-> [k \in Keys |-> [crs[k] EXCEPT !.modified = 0]],
     chars |-> chs, dups |-> dps]

C4_DetachInvariant ==
    \A c \in Ids :
        (chars[c].exists /\ chars[c].owner # None) => chars[c].credentials # {}

\* A character that was merged once has lost its last credential, and
\* with it its owner, in a deletion.
C4_Witness ==
    /\ \E k \in Keys : ~creds[k].exists
    /\ \E c \in Ids :
          /\ chars[c].exists
          /\ chars[c].view # "none"
          /\ chars[c].owner = None
          /\ chars[c].credentials = {}

\* Every row of resp was merged into a character by the pull that gave r.
AllMerged(resp, r) ==
    /\ r.outcome = "done"
    /\ \A i \in DOMAIN resp.rows : resp.rows[i].corp
    /\ \A c \in RowIds(resp.rows) : r.chars[c].owner = r.ret.owner

\* C5: the stored violation "Character" of a credential gives way to
\* another value only in a pull of that credential in which every reported
\* character was merged without a conflict; eval_violation never clears it.
C5_CharacterSticky ==
    \A k \in Keys :
        (creds[k].exists /\ creds[k].violation = "Character") =>
            /\ eval_violation(config, creds[k]).mem.violation = "Character"
            /\ \A resp \in MainAnswers \cup Failures :
                  LET r == PullNow(k, resp) IN
                  (r.creds[k].exists /\ r.creds[k].violation # "Character")
                      => AllMerged(resp, r)

\* The characters of key k that no other credential is attached to.
ExclusiveTo(k) == {c \in characters(chars, k) : chars[c].credentials = {k}}

\* C6: a pull whose key-info fetch fails with HTTP 403 deletes the record
\* and clears the owner of exactly the characters attached to no other
\* credential; the others keep their owner and lose the association only.
C6_DeleteOn403 ==
    \A k \in Keys :
        creds[k].exists =>
            LET r == PullNow(k, NoAnswer("403")) IN
            /\ r.outcome = "deleted"
            /\ ~r.creds[k].exists
            /\ \A j \in Keys \ {k} : r.creds[j] = creds[j]
            /\ \A c \in Ids :
                  /\ (chars[c].owner # None /\ r.chars[c].owner = None)
                        <=> c \in ExclusiveTo(k)
                  /\ c \in characters(chars, k) \ ExclusiveTo(k) =>
                        r.chars[c] = [chars[c] EXCEPT !.credentials = @ \ {k}]
                  /\ c \notin characters(chars, k) => r.chars[c] = chars[c]

\* Key 1002 was deleted: 78, which only it reported, is detached, and 77
\* is still owned through key 1001.
C6_Witness ==
    /\ ~creds[1002].exists
    /\ chars[78].exists /\ chars[78].view # "none" /\ chars[78].owner = None
    /\ AttachedTo(77, 1001)
    /\ chars[77].credentials = {1001}

\* C7: a pull whose key-info fetch fails otherwise than with HTTP 403
\* leaves the credentials, the characters and the duplicate links as they
\* were.
C7_FetchFailureKeepsState ==
    \A k \in Keys, status \in {"500", "timeout"} :
        creds[k].exists =>
            LET r == PullNow(k, NoAnswer(status)) IN
            /\ r.outcome \in {"fetch_failed", "fetch_raised"}
            /\ r.creds = creds
            /\ r.chars = chars
            /\ r.dups = dups

\* A fetch has failed in a state with attached characters and a link.
C7_Witness ==
    /\ last = [op |-> "pull", outcome |-> "fetch_failed"]
    /\ \A k \in Keys : creds[k].exists
    /\ \E c \in Ids : chars[c].exists /\ chars[c].credentials # {}
    /\ dups # {}

\* C8: a pull that reaches its end calls the grant revocation sink once
\* for each character that is attached to the credential and has no
\* verified credential, and not at all for any other character.
C8_RevocationCascade ==
    \A k \in Keys, resp \in MainAnswers :
        LET r == PullNow(k, resp) IN
        (creds[k].exists /\ r.outcome = "done") =>
            \A c \in Ids :
                r.revoked[c] =
                    IF /\ r.chars[c].exists
                       /\ k \in r.chars[c].credentials
                       /\ \A j \in r.chars[c].credentials : ~r.creds[j].verified
                    THEN 1 ELSE 0

\* Both credentials were persisted by a pull and are unverified; one
\* character is attached to both and the other to none.
C8_Witness ==
    /\ \A j \in Keys : creds[j].exists /\ creds[j].modified > 0 /\ ~creds[j].verified
    /\ \E c, d \in Ids :
          /\ chars[c].exists /\ chars[c].credentials = Keys
          /\ chars[d].exists /\ chars[d].credentials = {}

\* C10: the registry keeps no character row that a failed merge created:
\* every row it holds was merged at least once.
C10_NoOrphanRow ==
    \A c \in Ids : chars[c].exists => chars[c].view # "none"

\* The ways in which pull returns to its caller rather than raises.
Returns == {"corp", "deleted", "fetch_failed", "no_rows", "done"}

\* C11: a pull that returns gives None exactly when the record deleted
\* itself in that pull; otherwise it gives the credential, whose fields are
\* those of the stored record.
C11_ReturnsRecordUnlessDeleted ==
    \A k \in Keys, resp \in MainAnswers \cup Failures :
        creds[k].exists =>
            LET r == PullNow(k, resp) IN
            r.outcome \in Returns =>
                /\ ~r.returned <=> ~r.creds[k].exists
                /\ r.returned => r.ret = r.creds[k]

\* The rowset in which every remote call succeeds.
Healed(rows) == [i \in DOMAIN rows |-> [rows[i] EXCEPT !.fail = "none"]]

\* The pull of k answered by second, after the pull answered by first.
PullTwice(k, first, second) ==
    LET r1 == PullNow(k, first)
    IN  pull(r1.creds, r1.chars, r1.dups, config, k, second,
             Tick(r1.creds[k].modified))

\* C13: after a pull that aborted on a failed key-info fetch, or on a
\* failed identity fetch in its loop, a pull of the same credential that
\* succeeds against the same remote data leaves the stored state that this
\* successful pull alone would have left, the modified timestamp apart.
C13_RetryAfterTransientFailure ==
    \A k \in Keys, resp \in MainAnswers :
        creds[k].exists =>
            LET ok == [resp EXCEPT !.rows = Healed(@)]
                alone == PullNow(k, ok)
            IN  /\ PullNow(k, resp).outcome = "merge_raised"
                   /\ resp.rows[Len(resp.rows)].fail = "fetch"
                   => LET again == PullTwice(k, resp, ok)
                      IN  Stored(again.creds, again.chars, again.dups)
                             = Stored(alone.creds, alone.chars, alone.dups)
                /\ \A status \in {"500", "timeout"} :
                      LET again == PullTwice(k, NoAnswer(status), ok)
                      IN  Stored(again.creds, again.chars, again.dups)
                             = Stored(alone.creds, alone.chars, alone.dups)

\* A pull merged one character and then aborted on the fetch of another,
\* whose new row it rolled back: the credential was never persisted.
C13_Witness ==
    \E k \in Keys, c \in Ids, d \in Ids :
        /\ AttachedTo(c, k)
        /\ creds[k].modified = 0
        /\ ~chars[d].exists

C16_ConflictLeavesCharacter ==
    \A k \in Keys, row \in Rows(Ids) :
        ( /\ creds[k].exists
          /\ chars[row.id].exists
          /\ chars[row.id].owner \notin {None, creds[k].owner} )
        => LET r == pull_character(chars, dups, creds[k], k, row) IN
           /\ r.res = "conflict"
           /\ r.chars = chars
           /\ r.mem = [creds[k] EXCEPT !.violation = "Character"]
           /\ r.dups = dups \cup {{creds[k].owner, chars[row.id].owner}}

\* Key 1002 of account B was pulled and flagged for 77, which is as the
\* pull of key 1001 of account A merged it and is not attached to 1002.
C16_Witness ==
    /\ creds[1002].exists
    /\ creds[1002].owner = "B"
    /\ creds[1002].modified > 0
    /\ creds[1002].violation = "Character"
    /\ chars[77] = [exists |-> TRUE, owner |-> "A", credentials |-> {1001},
                    view |-> "sheet"]
    /\ dups = {{"A", "B"}}

MaskSatisfies(resp) ==
    IsIntLiteral(config.mask) /\ has_access(resp.mask, ParseInt(config.mask))

\* The verified flag that the policy asks for.
PolicyVerified(resp) ==
    /\ MaskSatisfies(resp)
    /\ \/ resp.kind = config.kind
       \/ (config.kind = "Character" /\ resp.kind = "Account")

\* A Character or Account key with a satisfying mask under the recommended
\* kind "Character".
GoodKey(resp) ==
    /\ resp.kind \in {"Character", "Account"}
    /\ config.kind = "Character"
    /\ MaskSatisfies(resp)

\* No reported character is owned by another account than the owner of k.
NoConflict(k, resp) ==
    \A c \in Ids :
        (Reports(resp, c) /\ chars[c].exists)
            => chars[c].owner \in {None, creds[k].owner}

\* The credential record cred of key k, as a pull answered by resp left
\* it, is as the policy asks.
PolicyHolds(k, resp, cred) ==
    /\ cred.verified = PolicyVerified(resp)
    /\ (GoodKey(resp) /\ NoConflict(k, resp)) =>
          (cred.verified /\ cred.violation = None)

\* C9, as claimed: the record that a pull returns after it applied the key
\* metadata has the verified flag of the policy, and a good key without
\* conflict ends verified with violation None.
C9_VerifiedAfterMetadata ==
    \A resp \in PolicyAnswers :
        LET r == PullNow(1001, resp) IN
        (creds[1001].exists /\ r.outcome \in {"no_rows", "done"})
            => PolicyHolds(1001, resp, r.ret)

\* C9, amended: the same of the stored record after every pull that
\* reaches its persist step.
C9_VerifiedAfterPersist ==
    \A resp \in PolicyAnswers :
        LET r == PullNow(1001, resp) IN
        (creds[1001].exists /\ r.outcome = "done")
            => PolicyHolds(1001, resp, r.creds[1001])

\* An Account key was pulled under the recommended kind "Character" and
\* ended verified and without violation.
C9_Witness ==
    /\ last = [op |-> "pull", outcome |-> "done"]
    /\ config.kind = "Character"
    /\ creds[1001].kind = "Account"
    /\ creds[1001].modified > 0
    /\ creds[1001].verified
    /\ creds[1001].violation = None

\* The kind is acceptable under the configured recommended kind.
PolicyKind(kind) ==
    \/ kind = config.kind
    \/ (config.kind = "Character" /\ kind = "Account")

\* The violation that the precedence of the policy gives a record of this
\* kind and mask whose violation was prior.
PolicyViolation(prior, kind, mask) ==
    IF prior = "Character" THEN "Character"
    ELSE IF ~PolicyKind(kind) THEN "Kind"
    ELSE IF BitAnd(mask, ParseInt(config.mask)) # ParseInt(config.mask) THEN "Mask"
    ELSE None

\* C14: under an integer recommended mask, eval_violation of the stored
\* record, whatever violation it had before, leaves "Character" alone and
\* unsaved, else sets "Kind" for an unacceptable kind, else "Mask" for a
\* mask that does not satisfy, else None, changes no other field, and
\* saves the record whenever the violation changed.
C14_EvalViolationPrecedence ==
    (IsIntLiteral(config.mask) /\ creds[1001].exists) =>
        \A prior \in Violations :
            LET mem == [creds[1001] EXCEPT !.violation = prior]
                e == eval_violation(config, mem)
                expected == PolicyViolation(prior, mem.kind, mem.mask)
            IN  /\ e.mem = [mem EXCEPT !.violation = expected]
                /\ expected # prior => e.saved
                /\ prior = "Character" => ~e.saved

\* eval_violation ran on a Corporation key whose mask does not satisfy
\* either: the kind decided.
C14_Witness ==
    /\ last.op = "eval_violation"
    /\ IsIntLiteral(config.mask)
    /\ creds[1001].kind = "Corporation"
    /\ ~has_access(creds[1001].mask, ParseInt(config.mask))
    /\ creds[1001].violation = "Kind"

\* C18: under an integer recommended mask, the record that a pull stores
\* at its persist step is verified when its violation is None and is not
\* verified when its violation is "Kind" or "Mask".
C18_VerifiedAgreesWithViolation ==
    (IsIntLiteral(config.mask) /\ creds[1001].exists) =>
        \A resp \in PolicyAnswers :
            LET r == PullNow(1001, resp)
                stored == r.creds[1001]
            IN  r.outcome = "done" =>
                    /\ stored.violation = None => stored.verified
                    /\ stored.violation \in {"Kind", "Mask"} => ~stored.verified

\* A pull stored a Character key under the recommended kind "Account":
\* its mask satisfies, and it is not verified and has the violation "Kind".
C18_Witness ==
    /\ last = [op |-> "pull", outcome |-> "done"]
    /\ config.kind = "Account"
    /\ MaskSatisfies(creds[1001])
    /\ creds[1001].kind = "Character"
    /\ creds[1001].violation = "Kind"
    /\ ~creds[1001].verified

(***************************************************************************)
(* Properties of the transfer system                                       *)
(***************************************************************************)
\* Key 1001 no longer lists 77 and key 1002 does.
Transferred ==
    ~Reported(remote[1001].rows, 77) /\ Reported(remote[1002].rows, 77)

\* 77 is owned by account B through key 1002 alone, and key 1002 is not
\* flagged for it.
Converged ==
    /\ chars[77].exists
    /\ chars[77].owner = "B"
    /\ chars[77].credentials = {1002}
    /\ creds[1002].violation # "Character"

BothPulled77 ==
    \A k \in Keys : procs[k].pc = "done" /\ 77 \in procs[k].reported

\* C2: when the pulls of two credentials of different accounts both report
\* 77, exactly one of the credentials ends with the violation "Character"
\* and 77 is owned by the owner of the credential that committed first.
C2_ExactlyOneConflict ==
    (BothPulled77 /\ creds[1001].owner # creds[1002].owner) =>
        /\ Cardinality({k \in Keys : creds[k].violation = "Character"}) = 1
        /\ commits # <<>>
        /\ chars[77].owner = creds[commits[1]].owner

\* C17: when the pulls of two credentials of one account both report 77
\* and both ran to their end, 77 is attached to both credentials and is
\* owned by that account.
C17_NoLostUpdate ==
    (BothPulled77 /\ creds[1001].owner = creds[1002].owner) =>
        /\ chars[77].credentials = Keys
        /\ chars[77].owner = creds[1001].owner

\* C12: the corporation has at most one row, and no pull has failed
\* because another pull saved the row first. (A character has one row by
\* the shape of chars: the insert at line 103 is refused by the unique
\* index when the row exists.)
C12_UniqueRows ==
    /\ corps <= 1
    /\ \A k \in Keys : procs[k].pc # "not_unique"

====
